---- MODULE Spec2Model ----
(***************************************************************************)
(* Sales & Stock dashboard (src/app.py): the Google-Sheet Record Source,   *)
(* the 60 s load cache, sanitize_and_prepare, the rendering of the         *)
(* low-stock alerts and the stock-adjustment write-back of main().         *)
(*                                                                         *)
(* Cells.  gspread's get_all_records turns a numeric-looking cell into a   *)
(* number and leaves any other cell a string.  A cell of a numeric or date *)
(* column is the pair <<"num", n>> or <<"str", 0>> (a non-numeric string   *)
(* such as "n/a" or the blank cell); prices are whole numbers here.  A     *)
(* Product or Category cell is a plain string.  <<"err", 0>> stands for a  *)
(* raised Python exception and <<"nat", 0>> for pandas' NaT.               *)
(*                                                                         *)
(* A script run is load_data, sanitize_and_prepare, the rendering, and,    *)
(* when the Apply button was pressed, the in-memory update followed by     *)
(* three update_cell calls, each of which may raise.  Whether the 60 s of  *)
(* the load cache have gone by is decided when a run loads.  The date      *)
(* range, the charts and the tables of lines 114-149 read the frames and   *)
(* write nothing; they are left out.  Product keys of the Stock sheet are  *)
(* unique (a duplicate key is undefined behaviour in the spec).            *)
(***************************************************************************)
EXTENDS Integers, Sequences, FiniteSets, TLC

VARIABLES
  sales_ws,      \* the "Sales" worksheet of the Record Source
  stock_ws,      \* the "Stock" worksheet of the Record Source
  stock_ws0,     \* the "Stock" worksheet as it was when the session began
  cache,         \* st.cache_data entry of load_data: [filled, sales, stock]
  pc,            \* position of the current script run
  err,           \* where the current run raised: none, load, sanitize, render, write
  raw,           \* [sales, stock]: sales_df_raw, stock_df_raw of the run
  sales_df,      \* sanitized Sales frame of the run
  stock_df,      \* sanitized Stock frame of the run
  merged,        \* the reconciled view of the run (sequence of rows)
  low_stock,     \* products listed by the low-stock alert of the run
  low_stock_count, \* the "Low-stock Items" KPI of the run
  form,          \* staged widget values: product, add_in, add_out, set_threshold
  button,        \* st.button("Apply Adjustment") as read by the run
  trace,         \* what the run did so far, in order
  pre,           \* view and worksheet as they were when Apply was confirmed
  applies,       \* confirmed adjustments in the session
  ledger         \* per session: sums of the adjustments written back, write failures,
                 \* and the adjustment last written back in full

vars == <<sales_ws, stock_ws, stock_ws0, cache, pc, err, raw, sales_df, stock_df,
          merged, low_stock, low_stock_count, form, button, trace, pre, applies,
          ledger>>

(* ------------------------------ bounds -------------------------------- *)
MaxStock == 2      \* rows of the Stock worksheet
MaxSales == 2      \* rows of the Sales worksheet
MaxApplies == 2    \* confirmed adjustments in one session

(* ------------------------------ cells --------------------------------- *)
Num(n) == <<"num", n>>
Str == <<"str", 0>>
Err == <<"err", 0>>
NaT == <<"nat", 0>>
IsNum(c) == c[1] = "num"

Range(s) == {s[i] : i \in 1..Len(s)}
Has(cols, c) == \E i \in 1..Len(cols) : cols[i] = c
\* pandas Index.get_loc: 0-based position of a column
get_loc(cols, c) == (CHOOSE i \in 1..Len(cols) : cols[i] = c) - 1

(* --------------------------- Record Source ---------------------------- *)
StockHeader == <<"Product", "Category", "Opening Stock", "Stock In", "Stock Out", "Min Threshold">>
SalesHeader == <<"Date", "Product", "Quantity Sold", "Unit Price", "Cost Price">>
StockNumeric == <<"Opening Stock", "Stock In", "Stock Out", "Min Threshold">>
SalesNumeric == <<"Quantity Sold", "Unit Price", "Cost Price">>
GridCols == 1..6

\* A worksheet: its header row and its data rows, each a row of grid cells.
\* A cell right of the header's last column is part of the grid and blank.
Blank == Str

\* gspread get_all_records + pd.DataFrame: one record per data row, keyed by
\* the header; no data row gives a frame with no columns at all.
DataFrame(ws) ==
  IF Len(ws.rows) = 0 THEN [cols |-> <<>>, rows |-> <<>>]
  ELSE [cols |-> ws.hdr,
        rows |-> [i \in 1..Len(ws.rows) |->
                    [c \in Range(ws.hdr) |-> ws.rows[i][get_loc(ws.hdr, c) + 1]]]]

\* gspread Worksheet.update_cell(row, col, value): rows and columns are
\* 1-based and row 1 is the header row.
update_cell(ws, row, col, value) ==
  IF row >= 2 /\ row - 1 <= Len(ws.rows) /\ col \in GridCols
  THEN [ws EXCEPT !.rows[row - 1][col] = Num(value)]
  ELSE ws

(* ----------------------- pandas / Python arithmetic ------------------- *)
\* a * b on an object column: int*int, str*int (repetition), str*str raises
PyMul(a, b) ==
  IF a = Err \/ b = Err THEN Err
  ELSE IF IsNum(a) /\ IsNum(b) THEN Num(a[2] * b[2])
  ELSE IF IsNum(a) \/ IsNum(b) THEN Str
  ELSE Err

\* a - b: raises unless both are numbers
PySub(a, b) == IF IsNum(a) /\ IsNum(b) THEN Num(a[2] - b[2]) ELSE Err

\* a + b inside a groupby sum: numbers add, strings concatenate, a mix raises
PyAdd(a, b) ==
  IF IsNum(a) /\ IsNum(b) THEN Num(a[2] + b[2])
  ELSE IF a = Str /\ b = Str THEN Str
  ELSE Err

\* pd.to_datetime(errors="coerce")
to_datetime(c) == IF IsNum(c) THEN c ELSE NaT

\* pd.to_numeric(errors="coerce").fillna(0).astype(int)
to_int(c) == IF IsNum(c) THEN c[2] ELSE 0

\* exact string match of the join / grouping key
KeyEq(a, b) == a = b

(* -------------------------- sanitize_and_prepare ---------------------- *)
\* lines 51-57: Date coerced, missing numeric columns set to 0, Total, Profit
AppendMissing(cols, wanted) ==
  LET RECURSIVE app(_, _)
      app(cs, i) == IF i > Len(wanted) THEN cs
                    ELSE app(IF Has(cs, wanted[i]) THEN cs ELSE Append(cs, wanted[i]), i + 1)
  IN app(cols, 1)

SalesCell(df, i, c) == IF Has(df.cols, c) THEN df.rows[i][c] ELSE Num(0)

SalesTotal(q, u) == PyMul(q, u)
SalesProfit(q, u, k) == PyMul(PySub(u, k), q)

SanitizeSales(df) ==
  LET cols2 == AppendMissing(df.cols, SalesNumeric) \o <<"Total", "Profit">>
      row(i) ==
        [c \in Range(cols2) |->
           IF c = "Date" THEN to_datetime(df.rows[i][c])
           ELSE IF c = "Total"
             THEN SalesTotal(SalesCell(df, i, "Quantity Sold"), SalesCell(df, i, "Unit Price"))
           ELSE IF c = "Profit"
             THEN SalesProfit(SalesCell(df, i, "Quantity Sold"), SalesCell(df, i, "Unit Price"),
                              SalesCell(df, i, "Cost Price"))
           ELSE SalesCell(df, i, c)]
  IN [cols |-> cols2, rows |-> [i \in 1..Len(df.rows) |-> row(i)]]

\* lines 59-63: missing numeric columns appended as 0, all four coerced to int
SanitizeStock(df) ==
  LET cols2 == AppendMissing(df.cols, StockNumeric)
      row(i) ==
        [c \in Range(cols2) |->
           IF Has(StockNumeric, c)
           THEN (IF Has(df.cols, c) THEN to_int(df.rows[i][c]) ELSE 0)
           ELSE df.rows[i][c]]
  IN [cols |-> cols2, rows |-> [i \in 1..Len(df.rows) |-> row(i)]]

\* lines 66-70: groupby("Product").agg(sum) of one column, for the group of p
GroupRows(sdf, p) == {i \in 1..Len(sdf.rows) : KeyEq(sdf.rows[i]["Product"], p)}

GroupSum(sdf, p, col) ==
  LET RECURSIVE fold(_, _)
      fold(i, acc) ==
        IF i > Len(sdf.rows) THEN acc
        ELSE IF i \notin GroupRows(sdf, p) THEN fold(i + 1, acc)
        ELSE fold(i + 1, IF acc = <<"none", 0>> THEN sdf.rows[i][col]
                         ELSE PyAdd(acc, sdf.rows[i][col]))
  IN fold(1, <<"none", 0>>)

\* line 78 and line 171
CurrentStock(opening, stock_in, stock_out, total_sold) ==
  opening + stock_in - stock_out - total_sold

\* lines 66-75: Total Sold of the Stock row's product before astype(int):
\* the group's sum, or 0 where the left merge found no group (fillna)
TotalSoldCell(srow, sdf) ==
  IF GroupRows(sdf, srow["Product"]) # {}
  THEN GroupSum(sdf, srow["Product"], "Quantity Sold")
  ELSE Num(0)

\* lines 74-78: the left merge of one Stock row with the aggregation
MergedRow(srow, sdf) ==
  LET p == srow["Product"]
      hit == GroupRows(sdf, p) # {}
      sold == to_int(TotalSoldCell(srow, sdf))
  IN [Product |-> p,
      Opening |-> srow["Opening Stock"],
      StockIn |-> srow["Stock In"],
      StockOut |-> srow["Stock Out"],
      MinThreshold |-> srow["Min Threshold"],
      TotalSold |-> sold,
      SalesValue |-> IF hit THEN GroupSum(sdf, p, "Total") ELSE Num(0),
      TotalProfit |-> IF hit THEN GroupSum(sdf, p, "Profit") ELSE Num(0),
      CurrentStock |-> CurrentStock(srow["Opening Stock"], srow["Stock In"],
                                    srow["Stock Out"], sold)]

\* Whether sanitize_and_prepare raises on these raw frames: an arithmetic
\* TypeError (56-57), KeyError 'Product' (66, 74), a TypeError inside a
\* group sum (66-70), or int() of a string Total Sold (75).
SanitizeRaises(rw) ==
  LET s == SanitizeSales(rw.sales)
      k == SanitizeStock(rw.stock)
  IN \/ \E i \in 1..Len(s.rows) : s.rows[i]["Total"] = Err \/ s.rows[i]["Profit"] = Err
     \/ ~Has(s.cols, "Product")
     \/ ~Has(k.cols, "Product")
     \/ \E i \in 1..Len(s.rows) : \E c \in {"Quantity Sold", "Total", "Profit"} :
          GroupSum(s, s.rows[i]["Product"], c) = Err
     \/ \E j \in 1..Len(k.rows) : ~IsNum(TotalSoldCell(k.rows[j], s))

Merged(rw) ==
  LET s == SanitizeSales(rw.sales)
      k == SanitizeStock(rw.stock)
  IN [j \in 1..Len(k.rows) |-> MergedRow(k.rows[j], s)]

(* ------------------------- the adjustment form ------------------------ *)
\* st.number_input values the operator may enter (signed, not validated):
\* <<Add-In, Remove-Out, Min Threshold>>; the first is the spec's scenario
Adjustments == {<<0, 15, 8>>, <<2, -1, -3>>}

\* lines 167, 173: first row whose Product is p (1-based here, 0-based in pandas)
IndexOf(rows, p) == CHOOSE i \in 1..Len(rows) :
                      /\ rows[i]["Product"] = p
                      /\ \A j \in 1..(i - 1) : rows[j]["Product"] # p

\* line 173: pandas index + 2 (the header row, and 1-based rows)
row_num(sdf, p) == (IndexOf(sdf.rows, p) - 1) + 2

\* ApplyInMemory without line 171: Current Stock kept as it was stored
ApplyInMemory_NoRecompute(m, idx, f) ==
  [m EXCEPT ![idx] =
     [m[idx] EXCEPT !.StockIn = @ + f.add_in,
                    !.StockOut = @ + f.add_out,
                    !.MinThreshold = f.set_threshold]]

\* lines 168-171: the in-memory update of the reconciled row
ApplyInMemory(m, idx, f) ==
  LET r == m[idx]
      newIn == r.StockIn + f.add_in
      newOut == r.StockOut + f.add_out
  IN [m EXCEPT ![idx] =
        [r EXCEPT !.StockIn = newIn,
                  !.StockOut = newOut,
                  !.MinThreshold = f.set_threshold,
                  !.CurrentStock = CurrentStock(r.Opening, newIn, newOut, r.TotalSold)]]

\* lines 174-176: the column each of the three update_cell calls addresses
WriteColumnName(k) == <<"Stock In", "Stock Out", "Min Threshold">>[k]
WriteColumn(sdf, k) == get_loc(sdf.cols, WriteColumnName(k)) + 1

\* lines 174-175: the values of the first two update_cell calls
StockInCell(row) == row.StockIn
StockOutCell(row) == row.StockOut
\* line 176 is cut off after the column name: the value written is the
\* spec's "Min Threshold := new value ... written back"
ThresholdCell(row) == row.MinThreshold
WriteValue(row, k) ==
  IF k = 1 THEN StockInCell(row) ELSE IF k = 2 THEN StockOutCell(row) ELSE ThresholdCell(row)

\* What main() does after the third update_cell is past the end of the
\* source at hand; the spec has the cached load reused for its whole
\* freshness window, so the cache entry is left as it is.
CacheAfterWriteBack(c) == c

(* ---------------------------- rendering ------------------------------- *)
\* lines 100, 152: rows with Current Stock <= Min Threshold
LowStockRows(m) == {j \in 1..Len(m) : m[j].CurrentStock <= m[j].MinThreshold}

\* line 98: int(sales_df['Quantity Sold'].sum()) raises on a string quantity
RenderRaises(sdf) == \E i \in 1..Len(sdf.rows) : ~IsNum(sdf.rows[i]["Quantity Sold"])

(* ------------------------------ inputs -------------------------------- *)
ProductNames == <<"A", "B", "C", "D">>
NoFrame == [cols |-> <<>>, rows |-> <<>>]
NoForm == [product |-> "", add_in |-> 0, add_out |-> 0, set_threshold |-> 0]
NoPre == [set |-> FALSE, merged |-> <<>>, ws |-> [hdr |-> <<>>, rows |-> <<>>], idx |-> 0]
NoLast == [set |-> FALSE, product |-> "", StockIn |-> 0, StockOut |-> 0, MinThreshold |-> 0]
ZeroLedger == [sumIn |-> [p \in Range(ProductNames) |-> 0],
               sumOut |-> [p \in Range(ProductNames) |-> 0],
               done |-> [p \in Range(ProductNames) |-> 0],
               failed |-> FALSE,
               last |-> NoLast]

Remove(seq, c) == SelectSeq(seq, LAMBDA x : x # c)

\* the grid row of a Stock product under header hdr; opening/in/out/thr are cells
StockGridRow(hdr, p, cells) ==
  [g \in GridCols |->
     IF g > Len(hdr) THEN Blank
     ELSE IF hdr[g] = "Product" THEN p
     ELSE IF hdr[g] = "Category" THEN "cat"
     ELSE cells[hdr[g]]]

StockCells(j, inCell) ==
  IF j = 1
  THEN [c \in Range(StockNumeric) |->
          IF c = "Opening Stock" THEN Num(10) ELSE IF c = "Stock In" THEN inCell
          ELSE IF c = "Stock Out" THEN Num(2) ELSE Num(8)]
  ELSE [c \in Range(StockNumeric) |->
          IF c = "Opening Stock" THEN Num(4) ELSE IF c = "Stock In" THEN Num(1)
          ELSE IF c = "Stock Out" THEN Num(0) ELSE Num(6)]

StockSheet(hdr, n, inCell) ==
  [hdr |-> hdr,
   rows |-> [j \in 1..n |-> StockGridRow(hdr, ProductNames[j], StockCells(j, inCell))]]

SalesGridRow(hdr, d, p, q, u, k) ==
  [g \in 1..Len(hdr) |->
     IF hdr[g] = "Date" THEN d ELSE IF hdr[g] = "Product" THEN p
     ELSE IF hdr[g] = "Quantity Sold" THEN q
     ELSE IF hdr[g] = "Unit Price" THEN u ELSE k]

\* Sales rows of the prepare runs: any mix of good and malformed cells
SalesRowChoices(hdr) ==
  {SalesGridRow(hdr, d, p, q, u, k) :
     d \in {Num(1), Str}, p \in {"A", "a"}, q \in {Num(3), Str},
     u \in {Num(10), Str}, k \in {Num(6), Str}}

SalesRowSeqs(hdr) ==
  UNION {[1..n -> SalesRowChoices(hdr)] : n \in 0..MaxSales}

\* Sales rows of the sessions: well-formed, the spec's scenario first
SessionSalesRows(n) ==
  [i \in 1..n |-> SalesGridRow(SalesHeader, Num(i), IF i = 2 THEN "a" ELSE "A",
                               Num(3), Num(10), Num(6))]

StockHeaders == {StockHeader, Remove(StockHeader, "Stock In")}
SalesHeaders == {SalesHeader, Remove(SalesHeader, "Cost Price")}

RunLocalInit ==
  /\ cache = [filled |-> FALSE, sales |-> NoFrame, stock |-> NoFrame]
  /\ pc = "idle"
  /\ err = "none"
  /\ raw = [sales |-> NoFrame, stock |-> NoFrame]
  /\ sales_df = NoFrame
  /\ stock_df = NoFrame
  /\ merged = <<>>
  /\ low_stock = {}
  /\ low_stock_count = 0
  /\ form = NoForm
  /\ button = FALSE
  /\ trace = <<>>
  /\ pre = NoPre
  /\ applies = 0
  /\ ledger = ZeroLedger

\* a session on a sheet whose Sales rows are well-formed
Init ==
  /\ \E hdr \in StockHeaders, inCell \in {Num(5), Str} :
        stock_ws = StockSheet(hdr, MaxStock, inCell)
  /\ sales_ws = [hdr |-> SalesHeader, rows |-> SessionSalesRows(MaxSales)]
  /\ stock_ws0 = stock_ws
  /\ RunLocalInit

\* one load and one sanitize_and_prepare on arbitrary sheets
InitPrepare ==
  /\ \E hdr \in StockHeaders, n \in 0..MaxStock, inCell \in {Num(5), Str} :
        stock_ws = StockSheet(hdr, n, inCell)
  /\ \E hdr \in SalesHeaders : \E rows \in SalesRowSeqs(hdr) :
        sales_ws = [hdr |-> hdr, rows |-> rows]
  /\ stock_ws0 = stock_ws
  /\ RunLocalInit

(* ------------------------------ actions ------------------------------- *)
RunEnded == {"idle", "applied", "stopped", "crashed"}

\* a fresh script run: every local of main() starts over
NewRun ==
  /\ pc \in RunEnded
  /\ sales_df' = NoFrame
  /\ stock_df' = NoFrame
  /\ merged' = <<>>
  /\ low_stock' = {}
  /\ low_stock_count' = 0
  /\ form' = NoForm
  /\ button' = FALSE
  /\ pre' = NoPre

\* line 88, an entry younger than ttl=60 (lines 34-35): the cached raw rows
LoadCached ==
  /\ NewRun
  /\ cache.filled
  /\ raw' = [sales |-> cache.sales, stock |-> cache.stock]
  /\ pc' = "loaded"
  /\ err' = "none"
  /\ trace' = <<"load_data">>
  /\ UNCHANGED <<sales_ws, stock_ws, stock_ws0, cache, applies, ledger>>

\* line 88, no entry or an entry older than ttl=60 (lines 34-42): both
\* worksheets are read and the result is cached
LoadFetch ==
  /\ NewRun
  /\ raw' = [sales |-> DataFrame(sales_ws), stock |-> DataFrame(stock_ws)]
  /\ cache' = [filled |-> TRUE, sales |-> DataFrame(sales_ws), stock |-> DataFrame(stock_ws)]
  /\ pc' = "loaded"
  /\ err' = "none"
  /\ trace' = <<"load_data">>
  /\ UNCHANGED <<sales_ws, stock_ws, stock_ws0, applies, ledger>>

\* LoadFails without st.stop: the error is shown and the run goes on
LoadFails_NoStop ==
  /\ NewRun
  /\ raw' = [sales |-> NoFrame, stock |-> NoFrame]
  /\ pc' = "loaded"
  /\ err' = "load"
  /\ trace' = <<"load_data", "st.error">>
  /\ UNCHANGED <<sales_ws, stock_ws, stock_ws0, cache, applies, ledger>>

\* lines 89-91: the read raises; st.error, then st.stop ends the run
LoadFails ==
  /\ NewRun
  /\ raw' = [sales |-> NoFrame, stock |-> NoFrame]
  /\ pc' = "stopped"
  /\ err' = "load"
  /\ trace' = <<"load_data", "st.error", "st.stop">>
  /\ UNCHANGED <<sales_ws, stock_ws, stock_ws0, cache, applies, ledger>>

\* line 93
SanitizeAndPrepare ==
  /\ pc = "loaded"
  /\ trace' = Append(trace, "sanitize")
  /\ IF SanitizeRaises(raw)
     THEN /\ pc' = "crashed"
          /\ err' = "sanitize"
          /\ UNCHANGED <<sales_df, stock_df, merged>>
     ELSE /\ pc' = "prepared"
          /\ err' = err
          /\ sales_df' = SanitizeSales(raw.sales)
          /\ stock_df' = SanitizeStock(raw.stock)
          /\ merged' = Merged(raw)
  /\ UNCHANGED <<sales_ws, stock_ws, stock_ws0, cache, raw, low_stock, low_stock_count,
                 form, button, pre, applies, ledger>>

\* lines 95-164: KPIs, tables, low-stock alerts and the adjustment form
Render ==
  /\ pc = "prepared"
  /\ trace' = Append(trace, "render")
  /\ IF RenderRaises(sales_df)
     THEN /\ pc' = "crashed"
          /\ err' = "render"
          /\ UNCHANGED <<low_stock, low_stock_count, form>>
     ELSE /\ pc' = "staged"
          /\ err' = err
          /\ low_stock_count' = Cardinality(LowStockRows(merged))
          /\ low_stock' = {merged[j].Product : j \in LowStockRows(merged)}
          /\ \E p \in {merged[j].Product : j \in 1..Len(merged)}, a \in Adjustments :
               form' = [product |-> p, add_in |-> a[1], add_out |-> a[2],
                        set_threshold |-> a[3]]
  /\ ledger' = [ledger EXCEPT !.last = NoLast]
  /\ UNCHANGED <<sales_ws, stock_ws, stock_ws0, cache, raw, sales_df, stock_df, merged,
                 button, pre, applies>>

\* NoApply that applies the staged values although the button was not pressed
NoApply_AutoApply ==
  /\ pc = "staged"
  /\ pc' = "idle"
  /\ button' = FALSE
  /\ trace' = Append(trace, "end")
  /\ merged' = ApplyInMemory(merged, IndexOf(merged, form.product), form)
  /\ UNCHANGED <<sales_ws, stock_ws, stock_ws0, cache, err, raw, sales_df, stock_df,
                 low_stock, low_stock_count, form, pre, applies, ledger>>

\* line 166, button not pressed: the run ends
NoApply ==
  /\ pc = "staged"
  /\ pc' = "idle"
  /\ button' = FALSE
  /\ trace' = Append(trace, "end")
  /\ UNCHANGED <<sales_ws, stock_ws, stock_ws0, cache, err, raw, sales_df, stock_df, merged,
                 low_stock, low_stock_count, form, pre, applies, ledger>>

\* lines 166-173, button pressed: the reconciled row is updated in memory
ApplyAdjustment ==
  /\ pc = "staged"
  /\ applies < MaxApplies
  /\ button' = TRUE
  /\ applies' = applies + 1
  /\ LET idx == IndexOf(merged, form.product)
     IN /\ merged' = ApplyInMemory(merged, idx, form)
        /\ pre' = [set |-> TRUE, merged |-> merged, ws |-> stock_ws, idx |-> idx]
  /\ pc' = "write1"
  /\ trace' = Append(trace, "apply")
  /\ UNCHANGED <<sales_ws, stock_ws, stock_ws0, cache, err, raw, sales_df, stock_df,
                 low_stock, low_stock_count, form, ledger>>

Writing == {"write1", "write2", "write3"}
WriteNo == IF pc = "write1" THEN 1 ELSE IF pc = "write2" THEN 2 ELSE 3

\* lines 174-176: the next update_cell call succeeds
UpdateCell ==
  /\ pc \in Writing
  /\ LET k == WriteNo
         row == merged[pre.idx]
     IN /\ stock_ws' = update_cell(stock_ws, row_num(stock_df, form.product),
                                   WriteColumn(stock_df, k), WriteValue(row, k))
        /\ trace' = Append(trace, WriteColumnName(k))
        /\ pc' = IF k = 1 THEN "write2" ELSE IF k = 2 THEN "write3" ELSE "applied"
        /\ cache' = IF k = 3 THEN CacheAfterWriteBack(cache) ELSE cache
        /\ ledger' = IF k = 3
                     THEN [ledger EXCEPT
                             !.sumIn[form.product] = @ + form.add_in,
                             !.sumOut[form.product] = @ + form.add_out,
                             !.done[form.product] = @ + 1,
                             !.last = [set |-> TRUE, product |-> form.product,
                                       StockIn |-> row.StockIn, StockOut |-> row.StockOut,
                                       MinThreshold |-> row.MinThreshold]]
                     ELSE ledger
  /\ UNCHANGED <<sales_ws, stock_ws0, err, raw, sales_df, stock_df, merged,
                 low_stock, low_stock_count, form, button, pre, applies>>

\* UpdateCellFails with a compensating write of the cells already updated
UpdateCellFails_Rollback ==
  /\ pc \in Writing
  /\ pc' = "crashed"
  /\ err' = "write"
  /\ trace' = Append(trace, "raise")
  /\ stock_ws' = pre.ws
  /\ ledger' = [ledger EXCEPT !.failed = TRUE]
  /\ UNCHANGED <<sales_ws, stock_ws0, cache, raw, sales_df, stock_df, merged,
                 low_stock, low_stock_count, form, button, pre, applies>>

\* lines 174-176: the next update_cell call raises; nothing catches it
UpdateCellFails ==
  /\ pc \in Writing
  /\ pc' = "crashed"
  /\ err' = "write"
  /\ trace' = Append(trace, "raise")
  /\ ledger' = [ledger EXCEPT !.failed = TRUE]
  /\ UNCHANGED <<sales_ws, stock_ws, stock_ws0, cache, raw, sales_df, stock_df, merged,
                 low_stock, low_stock_count, form, button, pre, applies>>

Next ==
  \/ LoadCached
  \/ LoadFetch
  \/ LoadFails
  \/ SanitizeAndPrepare
  \/ Render
  \/ NoApply
  \/ ApplyAdjustment
  \/ UpdateCell
  \/ UpdateCellFails

Spec == Init /\ [][Next]_vars

NextPrepare ==
  \/ LoadFetch
  \/ SanitizeAndPrepare

SpecPrepare == InitPrepare /\ [][NextPrepare]_vars

(* ============================== claims ================================ *)
HeaderComplete == stock_ws.hdr = StockHeader

\* the persisted field c of data row i of a worksheet, by header name
StoreField(ws, i, c) ==
  IF Has(ws.hdr, c) THEN ws.rows[i][get_loc(ws.hdr, c) + 1] ELSE <<"absent", 0>>

\* the position in trace of the run's "apply", and the update_cell calls
\* that returned since
ApplyAt == CHOOSE i \in 1..Len(trace) : trace[i] = "apply"
WritesDone ==
  Cardinality({i \in 1..Len(trace) : i > ApplyAt /\ trace[i] # "raise"})

\* C1: in every state of the reconciled view, right after
\* sanitize_and_prepare and after any applied adjustment (negative values
\* included), each row has Current Stock = Opening Stock + Stock In -
\* Stock Out - Total Sold.
C1_CurrentStockFormula ==
  \A j \in 1..Len(merged) :
    merged[j].CurrentStock =
      merged[j].Opening + merged[j].StockIn - merged[j].StockOut - merged[j].TotalSold

C1_Witness ==
  /\ pc = "applied"
  /\ applies = 2
  /\ form.add_out < 0
  /\ form.set_threshold < 0
  /\ merged[pre.idx].StockIn # pre.merged[pre.idx].StockIn

\* C2: when Apply Adjustment is confirmed for product P and all three cell
\* writes succeeded, the view row of P and the persisted Stock row at P's
\* offset (sheet row offset + 2) have Stock In = old Stock In + Add-In,
\* Stock Out = old Stock Out + Remove-Out, Min Threshold = the new value;
\* Opening Stock and Total Sold of P and every other product's row are
\* unchanged in the view and in the store.  "Old" is the value the view
\* showed when Apply was confirmed.
C2_ApplyWritesViewAndStore ==
  pc = "applied" =>
    LET i == pre.idx
        old == pre.merged[i]
        new == merged[i]
    IN /\ new.StockIn = old.StockIn + form.add_in
       /\ new.StockOut = old.StockOut + form.add_out
       /\ new.MinThreshold = form.set_threshold
       /\ new.Opening = old.Opening
       /\ new.TotalSold = old.TotalSold
       /\ \A j \in 1..Len(merged) : j # i => merged[j] = pre.merged[j]
       /\ StoreField(stock_ws, i, "Product") = form.product
       /\ StoreField(stock_ws, i, "Stock In") = Num(old.StockIn + form.add_in)
       /\ StoreField(stock_ws, i, "Stock Out") = Num(old.StockOut + form.add_out)
       /\ StoreField(stock_ws, i, "Min Threshold") = Num(form.set_threshold)
       /\ StoreField(stock_ws, i, "Opening Stock") = StoreField(pre.ws, i, "Opening Stock")
       /\ \A j \in 1..Len(stock_ws.rows) : j # i => stock_ws.rows[j] = pre.ws.rows[j]
       /\ stock_ws.hdr = pre.ws.hdr
       /\ Len(stock_ws.rows) = Len(pre.ws.rows)

\* C3: an adjustment is applied on the confirm action only: a step of a run
\* in which the Apply button was not pressed writes no cell of the Record
\* Source and changes no row of the reconciled view, staged values or not.
C3_NoWriteWithoutConfirm ==
  [][~button' =>
       /\ stock_ws' = stock_ws
       /\ sales_ws' = sales_ws
       /\ (pc \notin RunEnded => merged' = merged \/ merged = <<>>)]_vars

C3_Witness ==
  /\ pc = "idle"
  /\ ~button
  /\ form.add_out = 15
  /\ merged # <<>>
  /\ stock_ws = stock_ws0

\* C4: after an adjustment was applied and all its write-backs succeeded,
\* the next pipeline run shows for the adjusted product the Stock In, Stock
\* Out, Min Threshold just written back and the Current Stock they give
\* (stated for a Stock sheet that has all its columns).
C4_NextRunShowsWrittenValues ==
  (pc = "prepared" /\ ledger.last.set /\ HeaderComplete) =>
    LET r == merged[IndexOf(merged, ledger.last.product)]
    IN /\ r.StockIn = ledger.last.StockIn
       /\ r.StockOut = ledger.last.StockOut
       /\ r.MinThreshold = ledger.last.MinThreshold
       /\ r.CurrentStock = CurrentStock(r.Opening, ledger.last.StockIn,
                                        ledger.last.StockOut, r.TotalSold)

\* C5: the three update_cell calls are issued in the order Stock In, Stock
\* Out, Min Threshold and are not atomic: when the k-th raises, the cells of
\* calls 1..k-1 hold their new values, the cells of calls k..3 and every
\* other cell hold their old values, the view holds all three new values,
\* and nothing is rolled back, retried or compensated.
C5_PartialWriteBack ==
  (button /\ pc \in (Writing \cup {"applied", "crashed"})) =>
    LET i == pre.idx
        r == row_num(stock_df, form.product)
        n == WritesDone
        cell(ws, k) == ws.rows[r - 1][WriteColumn(stock_df, k)]
    IN /\ SubSeq(trace, ApplyAt + 1, ApplyAt + n)
            = SubSeq(<<"Stock In", "Stock Out", "Min Threshold">>, 1, n)
       /\ (err = "write") =>
            /\ pc = "crashed"
            /\ trace[Len(trace)] = "raise"
            /\ Len(trace) = ApplyAt + n + 1
            /\ n < 3
       /\ \A k \in 1..3 :
            cell(stock_ws, k) = IF k <= n THEN Num(WriteValue(merged[i], k))
                                ELSE cell(pre.ws, k)
       /\ \A j \in 1..Len(stock_ws.rows) : \A g \in GridCols :
            (j # r - 1 \/ \A k \in 1..3 : g # WriteColumn(stock_df, k))
              => stock_ws.rows[j][g] = pre.ws.rows[j][g]
       /\ merged[i].StockIn = pre.merged[i].StockIn + form.add_in
       /\ merged[i].StockOut = pre.merged[i].StockOut + form.add_out
       /\ merged[i].MinThreshold = form.set_threshold

C5_Witness ==
  /\ err = "write"
  /\ WritesDone = 2
  /\ stock_ws # pre.ws
  /\ form.set_threshold # pre.merged[pre.idx].MinThreshold

\* C6: when the Record Source read fails the run is aborted: the error is
\* shown, sanitize_and_prepare never runs, nothing is rendered, no
\* write-back is issued and the load is tried once only.
C6_LoadFailureAborts ==
  err = "load" =>
    /\ pc = "stopped"
    /\ trace = <<"load_data", "st.error", "st.stop">>
    /\ sales_df = NoFrame /\ stock_df = NoFrame /\ merged = <<>>
    /\ low_stock = {} /\ low_stock_count = 0 /\ form = NoForm
    /\ ~button /\ pre = NoPre

C6_Witness ==
  /\ err = "load"
  /\ cache.filled
  /\ applies = 1

\* C7: sanitize_and_prepare never ends in an error on malformed or missing
\* field data: with an unparseable Date, a non-numeric Quantity Sold, Unit
\* Price, Cost Price or Stock value, or one of those columns missing, the
\* run completes with the date null and the numeric value 0 (stated for
\* sheets that have rows and a Product column).
C7_MalformedFieldsNeverRaise ==
  (pc \in {"prepared", "crashed"} /\ Len(raw.sales.rows) > 0 /\ Len(raw.stock.rows) > 0) =>
    /\ err = "none"
    /\ \A i \in 1..Len(sales_df.rows) :
         /\ \A c \in Range(SalesNumeric) :
              sales_df.rows[i][c] = Num(to_int(SalesCell(raw.sales, i, c)))
         /\ Has(raw.sales.cols, "Date") =>
              sales_df.rows[i]["Date"] = to_datetime(raw.sales.rows[i]["Date"])
    /\ \A j \in 1..Len(stock_df.rows) : \A c \in Range(StockNumeric) :
         stock_df.rows[j][c] = (IF Has(raw.stock.cols, c) THEN to_int(raw.stock.rows[j][c]) ELSE 0)

\* the sum of f over the index set S
RECURSIVE SumInts(_, _)
SumInts(f, S) == IF S = {} THEN 0
                 ELSE LET x == CHOOSE y \in S : TRUE IN f[x] + SumInts(f, S \ {x})

\* all Sales cells of the numeric columns are numbers
SalesAllNumeric(df) ==
  \A i \in 1..Len(df.rows) : \A c \in Range(SalesNumeric) :
    Has(df.cols, c) => IsNum(df.rows[i][c])

\* C8: for any Sales set and any Stock set with unique Product keys the
\* reconciled result has exactly one row per Stock row and none for a
\* product only in Sales; Total Sold, Sales Value, Total Profit of the row
\* of P are the sums of Quantity Sold, Quantity Sold x Unit Price,
\* (Unit Price - Cost Price) x Quantity Sold over exactly the Sales rows
\* whose Product equals P, and 0 when none does (stated for numeric Sales
\* cells and a Stock set that has rows).
C8_ReconcileJoin ==
  (pc \in {"prepared", "crashed"} /\ SalesAllNumeric(raw.sales) /\ Len(raw.stock.rows) > 0) =>
    /\ err = "none"
    /\ Len(merged) = Len(raw.stock.rows)
    /\ \A j \in 1..Len(merged) :
         LET p == raw.stock.rows[j]["Product"]
             G == {i \in 1..Len(raw.sales.rows) : raw.sales.rows[i]["Product"] = p}
             q == [i \in G |-> SalesCell(raw.sales, i, "Quantity Sold")[2]]
             u == [i \in G |-> SalesCell(raw.sales, i, "Unit Price")[2]]
             k == [i \in G |-> SalesCell(raw.sales, i, "Cost Price")[2]]
         IN /\ merged[j].Product = p
            /\ merged[j].TotalSold = SumInts(q, G)
            /\ merged[j].SalesValue = Num(SumInts([i \in G |-> q[i] * u[i]], G))
            /\ merged[j].TotalProfit = Num(SumInts([i \in G |-> (u[i] - k[i]) * q[i]], G))

\* C9: a product is flagged low-stock exactly when its Current Stock <= Min
\* Threshold: the alert list and the Low-stock Items count shown hold all
\* and only such rows of the reconciled view, also once an applied
\* adjustment has brought a product to or below its threshold.
C9_LowStockFlag ==
  pc \in {"staged", "idle", "applied"} =>
    /\ low_stock = {merged[j].Product : j \in LowStockRows(merged)}
    /\ low_stock_count = Cardinality(LowStockRows(merged))

\* C10: adjustments accumulate in the Record Source: after any sequence of
\* applied adjustments whose write-backs all succeeded, at any spacing
\* relative to the 60 s cache window, the persisted Stock In of a product is
\* its initial Stock In plus all its Add-In values and the persisted Stock
\* Out its initial Stock Out plus all its Remove-Out values (stated for a
\* Stock sheet that has all its columns).
C10_AdjustmentsAccumulate ==
  (pc \in RunEnded /\ ~ledger.failed /\ HeaderComplete) =>
    \A j \in 1..Len(stock_ws.rows) :
      LET p == StoreField(stock_ws, j, "Product")
      IN ledger.done[p] > 0 =>
         /\ StoreField(stock_ws, j, "Stock In")
              = Num(to_int(StoreField(stock_ws0, j, "Stock In")) + ledger.sumIn[p])
         /\ StoreField(stock_ws, j, "Stock Out")
              = Num(to_int(StoreField(stock_ws0, j, "Stock Out")) + ledger.sumOut[p])

====
